---- MODULE Spec2Model ----
(***************************************************************************)
(* The request handlers of globus_portal_framework/views.py as a state     *)
(* machine.  One step is one HTTP request served by one handler.  The      *)
(* state that survives a request is the Django session and the user's      *)
(* authentication; the request served last, its response and the calls it  *)
(* made to the helper functions are kept so that properties can speak      *)
(* about them.                                                             *)
(***************************************************************************)
EXTENDS Integers, Sequences, FiniteSets, TLC

VARIABLES
    is_authenticated,   \* request.user.is_authenticated for this session's user
    tokens,             \* the user's Globus tokens: "none", "active", "revoked"
    session,            \* request.session, a dict (function from keys)
    request,            \* the request served last
    response,           \* what the handler returned (or raised) for it
    calls,              \* the helper calls the handler made, in order
    served              \* history: the last search request served with a
                        \* non-empty query since the session was last popped

vars == <<is_authenticated, tokens, session, request, response, calls, served>>

----------------------------------------------------------------------------
(* Python values *)

None == "None"

\* bool(v) for an optional string: None and '' are falsy
Truthy(v) == v # None /\ v # ""

EmptyDict == << >>

Has(d, k) == k \in DOMAIN d

\* d[k] = v
Put(d, k, v) == [x \in (DOMAIN d) \cup {k} |-> IF x = k THEN v ELSE d[x]]

\* json.dumps(v, indent=2): the value as JSON text
Dumps(v) == <<"json", v>>

----------------------------------------------------------------------------
(* The inputs requests are drawn from *)

Indexes == {"idx1", "idx2"}
SubjectNames == {"sub1"}
Methods == {"GET", "POST"}
ScopeValues == {None, "scope1"}
NextValues == {None, "", "/search"}
NextArgs == {"/", "/home"}
EndpointValues == {None, "ep1"}
UrlPathValues == {None, "file.txt"}

\* request.GET: the query parameters, None for one that is absent
NoParams == [q |-> None, filter |-> None, page |-> None, scope |-> None,
             next |-> None]

\* The URLs a remote file manifest entry can carry, already split at the
\* places urlparse splits them; netloc is kept as its characters.
ManifestUrls ==
    << [scheme |-> "globus", netloc |-> <<"e", "p", "1", ":">>,
        path |-> "/share/data", query |-> ""],
       [scheme |-> "globus", netloc |-> <<"e", "p", "2">>,
        path |-> "/other", query |-> ""] >>

\* What 'remote_file_manifest' can be in a subject: <<>> stands for the key
\* being absent, <<m>> for the key holding the list m.
ManifestChoices ==
    { <<>>,
      << <<>> >>,
      << <<[url |-> ManifestUrls[1]], [url |-> ManifestUrls[2]]>> >> }

\* The subjects the pages that ignore the manifest are asked for
PlainManifestChoices ==
    { <<>>,
      << <<[url |-> ManifestUrls[1]], [url |-> ManifestUrls[2]]>> >> }

Ok == [ok |-> TRUE, code |-> None, message |-> None]

TransferAPIErrors ==
    { [ok |-> FALSE, code |-> "AuthenticationFailed",
       message |-> "Token is not active"],
      [ok |-> FALSE, code |-> "AuthenticationFailed",
       message |-> "Bad credentials"],
      [ok |-> FALSE, code |-> "EndpointPermissionDenied",
       message |-> "Token is not active"] }

TransferCalls == {"check_exists", "helper_page_transfer", "get_helper_page_url"}

PreviewErrors ==
    { [ok |-> FALSE, code |-> "UnexpectedError", message |-> "unexpected"],
      [ok |-> FALSE, code |-> "PermissionDenied", message |-> "denied"] }

SearchErrors == {None, "SearchAPIError"}

----------------------------------------------------------------------------
(* Records of what a request did *)

Call(fn, args, out) == [fn |-> fn, args |-> args, out |-> out]

Request(handler, method, GET, index, subject, endpoint, url_path, next, sub) ==
    [handler |-> handler, method |-> method, GET |-> GET, index |-> index,
     subject |-> subject, endpoint |-> endpoint, url_path |-> url_path,
     next |-> next, user |-> is_authenticated, subject_data |-> sub]

NoTemplate == [index |-> None, name |-> None]

Render(template, context) ==
    [kind |-> "render", template |-> template, context |-> context,
     target |-> None, exc |-> None]

Redirect(to) ==
    [kind |-> "redirect", template |-> NoTemplate, context |-> EmptyDict,
     target |-> to, exc |-> None]

Raise(exc, context) ==
    [kind |-> "raise", template |-> NoTemplate, context |-> context,
     target |-> None, exc |-> exc]

----------------------------------------------------------------------------
(* Helpers the handlers import *)

\* get_template(index, base): the template the index is rendered with
get_template(index, name) == [index |-> index, name |-> name]

\* get_search_query(request): the 'q' parameter, or else the query of the
\* user's last search, kept in the session
get_search_query(GET, sess) ==
    IF Truthy(GET.q) THEN GET.q
    ELSE IF Has(sess, "search") THEN sess["search"].query
    ELSE None

\* get_search_filters(request): the 'filter.<name>' parameters
get_search_filters(GET) ==
    IF GET.filter = None THEN {} ELSE {<<"elements", GET.filter>>}

\* post_search(index, query, filters, user, page): the search result, which
\* carries 'error' when Globus Search refused the search
post_search(index, query, filters, user, page, error) ==
    [index |-> index, query |-> query, filters |-> filters,
     credentialed |-> user, page |-> page, error |-> error,
     facets |-> <<"elements">>]

\* get_subject(index, subject, user): the template context of one result
get_subject(index, subject, user, manifest) ==
    LET base == [subject |-> subject,
                 all |-> [index |-> index, credentialed |-> user]]
    IN  IF manifest = <<>> THEN base
        ELSE Put(base, "remote_file_manifest", manifest[1])

\* request.GET.get('page', 1)
PageOf(GET) == IF GET.page = None THEN "1" ELSE GET.page

Param(k, v) == IF v = None THEN <<>> ELSE <<k \o "=" \o v>>

RECURSIVE JoinAmp(_)
JoinAmp(s) ==
    IF s = <<>> THEN ""
    ELSE IF Len(s) = 1 THEN s[1]
    ELSE s[1] \o "&" \o JoinAmp(Tail(s))

\* request.get_full_path(): the path and the query string of the request
get_full_path(path, GET) ==
    [scheme |-> "", netloc |-> <<>>, path |-> path,
     query |-> JoinAmp(Param("q", GET.q) \o Param("filter.elements", GET.filter)
                       \o Param("page", GET.page) \o Param("scope", GET.scope)
                       \o Param("next", GET.next))]

\* urlparse(url): the parts of a URL
urlparse(url) == [netloc |-> url.netloc, path |-> url.path, query |-> url.query]

\* s.replace(ch, '')
Replace(s, ch) == SelectSeq(s, LAMBDA c : c # ch)

----------------------------------------------------------------------------
(* search *)

\* context['search'] = post_search(...) under 'if query:'
search_context_q_only(GET, query, result) ==
    IF Truthy(GET.q) THEN Put(EmptyDict, "search", result) ELSE EmptyDict

search_context(GET, query, result) ==
    IF Truthy(query) THEN Put(EmptyDict, "search", result) ELSE EmptyDict

\* request.session['search'] = {...} under 'if query:'
search_session_unless_error(sess, GET, index, query, filters, result) ==
    IF Truthy(query) /\ ~Truthy(result.error)
    THEN Put(sess, "search",
             [full_query |-> urlparse(get_full_path("/" \o index \o "/", GET)).query,
              query |-> query, filters |-> filters, index |-> index])
    ELSE sess

search_session(sess, GET, index, query, filters, result) ==
    IF Truthy(query)
    THEN Put(sess, "search",
             [full_query |-> urlparse(get_full_path("/" \o index \o "/", GET)).query,
              query |-> query, filters |-> filters, index |-> index])
    ELSE sess

search_calls(query, result) ==
    IF Truthy(query)
    THEN <<Call("post_search", <<>>, Ok)>>
         \o (IF Truthy(result.error)
             THEN <<Call("messages.error", <<>>, Ok)>> ELSE <<>>)
    ELSE <<>>

search(GET, index, error) ==
    LET query == get_search_query(GET, session)
        filters == get_search_filters(GET)
        result == post_search(index, query, filters, is_authenticated,
                              PageOf(GET), error)
    IN  /\ request' = Request("search", "GET", GET, index, None, None, None,
                              None, EmptyDict)
        /\ session' = search_session(session, GET, index, query, filters, result)
        /\ calls' = search_calls(query, result)
        /\ response' = Render(get_template(index, "search.html"),
                              search_context(GET, query, result))
        /\ served' = IF Truthy(query)
                     THEN <<[GET |-> GET, index |-> index, query |-> query]>>
                     ELSE served
        /\ UNCHANGED <<is_authenticated, tokens>>

----------------------------------------------------------------------------
(* logout *)

\* request.GET.get('next', next)
logout_target_or(GET, next) == IF Truthy(GET.next) THEN GET.next ELSE next

logout_target(GET, next) == IF GET.next # None THEN GET.next ELSE next

\* if request.user.is_authenticated: revoke_globus_tokens; django_logout
logout_calls_swapped(user) ==
    IF user
    THEN <<Call("django_logout", <<>>, Ok), Call("revoke_globus_tokens", <<>>, Ok)>>
    ELSE <<>>

logout_calls(user) ==
    IF user
    THEN <<Call("revoke_globus_tokens", <<>>, Ok), Call("django_logout", <<>>, Ok)>>
    ELSE <<>>

logout(GET, next) ==
    LET cs == logout_calls(is_authenticated)
        revoked == \E i \in 1..Len(cs) : cs[i].fn = "revoke_globus_tokens"
        popped == \E i \in 1..Len(cs) : cs[i].fn = "django_logout"
    IN  /\ request' = Request("logout", "GET", GET, None, None, None, None,
                              next, EmptyDict)
        /\ calls' = cs
        /\ tokens' = IF revoked /\ tokens = "active" THEN "revoked" ELSE tokens
        /\ session' = IF popped THEN EmptyDict ELSE session
        /\ is_authenticated' = IF popped THEN FALSE ELSE is_authenticated
        /\ served' = IF popped THEN <<>> ELSE served
        /\ response' = Redirect(logout_target(GET, next))

----------------------------------------------------------------------------
(* index_selection, search_debug, search_debug_detail, detail *)

index_selection ==
    /\ request' = Request("index_selection", "GET", NoParams, None, None, None,
                          None, None, EmptyDict)
    /\ calls' = <<>>
    /\ response' = Render([index |-> None, name |-> "index-selection.html"],
                          [search_indexes |-> Indexes])
    /\ UNCHANGED <<is_authenticated, tokens, session, served>>

search_debug(GET, index, error) ==
    LET query == get_search_query(GET, session)
        filters == get_search_filters(GET)
        results == post_search(index, query, filters, is_authenticated, "1",
                               error)
    IN  /\ request' = Request("search_debug", "GET", GET, index, None, None,
                              None, None, EmptyDict)
        /\ calls' = <<Call("post_search", <<>>, Ok)>>
        /\ response' = Render(get_template(index, "search-debug.html"),
                              [search |-> results,
                               facets |-> Dumps(results.facets)])
        /\ UNCHANGED <<is_authenticated, tokens, session, served>>

\* the keys of a subject in the order get_subject inserted them
KeyOrder(sub) ==
    SelectSeq(<<"subject", "all", "remote_file_manifest">>,
              LAMBDA k : Has(sub, k))

\* OrderedDict.move_to_end(key)
MoveToEnd(order, key) == SelectSeq(order, LAMBDA k : k # key) \o <<key>>

search_debug_detail(index, subject, manifest) ==
    LET sub == get_subject(index, subject, is_authenticated, manifest)
        debug_fields == [name \in DOMAIN sub |-> Dumps(sub[name])]
        dfields == [order |-> MoveToEnd(KeyOrder(sub), "all"),
                    fields |-> debug_fields]
    IN  /\ request' = Request("search_debug_detail", "GET", NoParams, index,
                              subject, None, None, None, sub)
        /\ calls' = <<Call("get_subject", <<>>, Ok)>>
        /\ response' = Render(get_template(index, "search-debug-detail.html"),
                              Put(sub, "django_portal_framework_debug_fields",
                                  dfields))
        /\ UNCHANGED <<is_authenticated, tokens, session, served>>

detail(index, subject, manifest) ==
    LET sub == get_subject(index, subject, is_authenticated, manifest)
    IN  /\ request' = Request("detail", "GET", NoParams, index, subject, None,
                              None, None, sub)
        /\ calls' = <<Call("get_subject", <<>>, Ok)>>
        /\ response' = Render(get_template(index, "detail-overview.html"), sub)
        /\ UNCHANGED <<is_authenticated, tokens, session, served>>

----------------------------------------------------------------------------
(* detail_transfer *)

\* the outcome of helper call fn, when the call named fail raises e
Outcome(fn, fail, e) == IF fail = fn THEN e ELSE Ok

task_url(task_id) ==
    "https://www.globus.org/app/activity/" \o task_id \o "/overview"

\* tapie.code == 'AuthenticationFailed' and tapie.message == 'Token is not active'
is_expired_token_or(e) ==
    e.code = "AuthenticationFailed" \/ e.message = "Token is not active"

is_expired_token(e) ==
    e.code = "AuthenticationFailed" /\ e.message = "Token is not active"

\* except globus_sdk.TransferAPIError as tapie
except_TransferAPIError(context, cs, tapie) ==
    LET ctx == Put(context, "detail_error", tapie)
    IN  IF is_expired_token(tapie)
        THEN [context |-> ctx, calls |-> cs, exc |-> "ExpiredGlobusToken"]
        ELSE [context |-> ctx,
              calls |-> cs \o (IF tapie.code \notin {"EndpointPermissionDenied"}
                               THEN <<Call("log.error", <<>>, Ok)>> ELSE <<>>),
              exc |-> None]

\* if request.method == 'POST'
transfer_submits_any(method) == TRUE

transfer_submits(method) == method = "POST"

\* the try block of detail_transfer and its except clauses
detail_transfer_try(context, method, index, subject, fail, e) ==
    IF ~Has(context, "remote_file_manifest")
       \/ context["remote_file_manifest"] = <<>>
    THEN \* ValueError, logged
         [context |-> context, calls |-> <<Call("log.error", <<>>, Ok)>>,
          exc |-> None]
    ELSE
      LET parsed == urlparse(context["remote_file_manifest"][1].url)
          ep == Replace(parsed.netloc, ":")
          path == parsed.path
          o1 == Outcome("check_exists", fail, e)
          o2 == Outcome("helper_page_transfer", fail, e)
          o3 == Outcome("get_helper_page_url", fail, e)
          c1 == <<Call("check_exists", <<ep, path>>, o1)>>
          post == transfer_submits(method)
          c2 == IF post
                THEN c1 \o <<Call("helper_page_transfer", <<ep, path>>, o2)>>
                ELSE c1
          ctx2 == IF post
                  THEN Put(context, "transfer_link", task_url("task1"))
                  ELSE context
          full_url == [view |-> "detail-transfer", args |-> <<index, subject>>]
          c3 == c2 \o <<Call("get_helper_page_url", <<>>, o3)>>
          link == [action |-> full_url, cancelurl |-> full_url,
                   folderlimit |-> 1, filelimit |-> 0]
      IN  IF ~o1.ok THEN except_TransferAPIError(context, c1, o1)
          ELSE IF post /\ ~o2.ok THEN except_TransferAPIError(context, c2, o2)
          ELSE IF ~o3.ok THEN except_TransferAPIError(ctx2, c3, o3)
          ELSE [context |-> Put(ctx2, "helper_page_link", link), calls |-> c3,
                exc |-> None]

detail_transfer(method, index, subject, manifest, fail, e) ==
    LET sub == get_subject(index, subject, is_authenticated, manifest)
        r == IF is_authenticated
             THEN detail_transfer_try(sub, method, index, subject, fail, e)
             ELSE [context |-> sub, calls |-> <<>>, exc |-> None]
    IN  /\ request' = Request("detail_transfer", method, NoParams, index,
                              subject, None, None, None, sub)
        /\ calls' = <<Call("get_subject", <<>>, Ok)>> \o r.calls
        /\ response' = IF r.exc # None THEN Raise(r.exc, r.context)
                       ELSE Render(get_template(index, "detail-transfer.html"),
                                   r.context)
        /\ UNCHANGED <<is_authenticated, tokens, session, served>>

----------------------------------------------------------------------------
(* detail_preview *)

\* not any((endpoint, url_path, scope))
preview_params_missing(endpoint, url_path, scope) ==
    ~(Truthy(endpoint) \/ Truthy(url_path) \/ Truthy(scope))

\* PreviewURLNotFound(subject), a PreviewException
PreviewURLNotFound(subject) ==
    [ok |-> FALSE, code |-> "PreviewURLNotFound", message |-> subject]

\* except PreviewException as pe
except_PreviewException(context, cs, pe) ==
    [context |-> Put(context, "detail_error", pe),
     calls |-> cs \o (IF pe.code \in {"UnexpectedError", "ServerError"}
                      THEN <<Call("log.exception", <<>>, Ok)>> ELSE <<>>)
                  \o <<Call("log.debug", <<>>, Ok)>>]

detail_preview_try(context, subject, endpoint, url_path, scope, out) ==
    IF preview_params_missing(endpoint, url_path, scope)
    THEN except_PreviewException(context, <<Call("log.error", <<>>, Ok)>>,
                                 PreviewURLNotFound(subject))
    ELSE
      LET url == "https://" \o endpoint \o "/" \o url_path
          cs == <<Call("log.debug", <<>>, Ok),
                  Call("preview", <<url, scope>>, out)>>
      IN  IF out.ok
          THEN [context |-> Put(context, "preview_data",
                                [url |-> url, scope |-> scope,
                                 size |-> "PREVIEW_DATA_SIZE"]),
                calls |-> cs]
          ELSE except_PreviewException(context, cs, out)

detail_preview(index, subject, endpoint, url_path, scope, manifest, out) ==
    LET sub == get_subject(index, subject, is_authenticated, manifest)
        r == detail_preview_try(sub, subject, endpoint, url_path, scope, out)
    IN  /\ request' = Request("detail_preview", "GET",
                              [NoParams EXCEPT !.scope = scope], index, subject,
                              endpoint, url_path, None, sub)
        /\ calls' = <<Call("get_subject", <<>>, Ok)>> \o r.calls
        /\ response' = Render(get_template(index, "detail-preview.html"),
                              r.context)
        /\ UNCHANGED <<is_authenticated, tokens, session, served>>

----------------------------------------------------------------------------
(* The portal *)

Init ==
    /\ is_authenticated \in BOOLEAN
    /\ tokens = IF is_authenticated THEN "active" ELSE "none"
    /\ session = EmptyDict
    /\ request = Request(None, None, NoParams, None, None, None, None, None,
                         EmptyDict)
    /\ response = [kind |-> None, template |-> NoTemplate,
                   context |-> EmptyDict, target |-> None, exc |-> None]
    /\ calls = <<>>
    /\ served = <<>>

\* The query strings search requests come with
SearchParams ==
    { NoParams,
      [NoParams EXCEPT !.q = "", !.page = "2"],
      [NoParams EXCEPT !.filter = "H"],
      [NoParams EXCEPT !.q = "foo*"],
      [NoParams EXCEPT !.q = "bar", !.filter = "H", !.page = "2"] }

\* What the helper calls of one detail_transfer request can do: all return,
\* or one of them raises a TransferAPIError (and the later ones are not made)
TransferFaults ==
    {<<None, Ok>>} \cup (TransferCalls \X TransferAPIErrors)

Next ==
    \/ index_selection
    \/ \E GET \in SearchParams, index \in Indexes, error \in SearchErrors :
          search(GET, index, error)
    \/ \E GET \in SearchParams, index \in Indexes, error \in SearchErrors :
          search_debug(GET, index, error)
    \/ \E index \in Indexes, subject \in SubjectNames,
          manifest \in PlainManifestChoices :
          search_debug_detail(index, subject, manifest)
    \/ \E index \in Indexes, subject \in SubjectNames,
          manifest \in PlainManifestChoices :
          detail(index, subject, manifest)
    \/ \E method \in Methods, index \in Indexes, subject \in SubjectNames,
          manifest \in ManifestChoices, fault \in TransferFaults :
          detail_transfer(method, index, subject, manifest, fault[1], fault[2])
    \/ \E index \in Indexes, subject \in SubjectNames,
          endpoint \in EndpointValues, url_path \in UrlPathValues,
          scope \in ScopeValues, manifest \in PlainManifestChoices,
          out \in PreviewErrors \cup {Ok} :
          detail_preview(index, subject, endpoint, url_path, scope, manifest,
                         out)
    \/ \E n \in NextValues, next \in NextArgs :
          logout([NoParams EXCEPT !.next = n], next)

Spec == Init /\ [][Next]_vars

----------------------------------------------------------------------------
(* Properties *)

CalledIn(cs, fn) == \E i \in 1..Len(cs) : cs[i].fn = fn

\* what request.session['search'] holds for the search request r
StoredSearch(r) ==
    [full_query |-> get_full_path("/" \o r.index \o "/", r.GET).query,
     query |-> r.query,
     filters |-> get_search_filters(r.GET),
     index |-> r.index]

\* C1: once a search request with a non-empty query has been served and
\* no logout has popped the session since, request.session['search'] holds
\* the query, filters, index and full query string of the most recent such
\* request, whether or not the search returned an error; a search request
\* whose query is empty calls no post_search and leaves the session as it was.
C1_SessionHoldsLastSearch ==
    [][ /\ served' # <<>> =>
             /\ Has(session', "search")
             /\ session'["search"] = StoredSearch(served'[1])
        /\ (request'.handler = "search"
            /\ ~Truthy(get_search_query(request'.GET, session))) =>
             /\ session' = session
             /\ ~CalledIn(calls', "post_search") ]_vars

\* a search that returned an error was served and its query is in the session
C1_Witness ==
    /\ request.handler = "search"
    /\ Truthy(request.GET.q)
    /\ Has(response.context, "search")
    /\ Truthy(response.context["search"].error)
    /\ served # <<>>
    /\ Has(session, "search")
    /\ session["search"].query = request.GET.q
    /\ session["search"].index = request.index

\* C2: when the search page is visited without a search query and the
\* session holds the user's last query (a search with a query was served and
\* the session was not popped since), the handler searches again with that
\* query and renders a 'search' entry for it.
C2_RepeatsLastSearch ==
    [][ (request'.handler = "search" /\ ~Truthy(request'.GET.q)) =>
          /\ served # <<>> =>
               /\ response'.kind = "render"
               /\ Has(response'.context, "search")
               /\ response'.context["search"].query = served[1].query
               /\ CalledIn(calls', "post_search")
          /\ Has(session, "search") =>
               /\ Has(response'.context, "search")
               /\ response'.context["search"].query = session["search"].query
               /\ response'.context["search"].index = request'.index ]_vars

\* the page was visited without a query and the last query was searched again
C2_Witness ==
    /\ request.handler = "search"
    /\ request.GET.q = None
    /\ Has(response.context, "search")
    /\ response.context["search"].query = "foo*"
    /\ response.context["search"].page = "1"
    /\ CalledIn(calls, "post_search")

\* C3: every logout request, authenticated or not, is answered with a
\* redirect to the 'next' query parameter when it is present and to the
\* handler's 'next' argument when it is absent.
C3_LogoutRedirectsToNext ==
    request.handler = "logout" =>
        /\ response.kind = "redirect"
        /\ request.GET.next # None => response.target = request.GET.next
        /\ request.GET.next = None => response.target = request.next

\* an authenticated logout without a 'next' parameter went to the argument
C3_Witness ==
    /\ request.handler = "logout"
    /\ request.user
    /\ request.GET.next = None
    /\ request.next = "/home"
    /\ response.target = "/home"

\* C4: a logout by an authenticated user revokes the tokens and then pops
\* the session, in that order, before it redirects, after which the user is
\* unauthenticated and the stored search is gone: no later request
\* authenticates the user, and the session holds a search again only once a
\* search request brings a new query; a logout by an unauthenticated user
\* calls neither helper and leaves the session as it was.
C4_LogoutRevokesThenPops ==
    [][ /\ request'.handler = "logout" =>
             IF is_authenticated
             THEN /\ Len(calls') = 2
                  /\ calls'[1].fn = "revoke_globus_tokens"
                  /\ calls'[2].fn = "django_logout"
                  /\ response'.kind = "redirect"
                  /\ ~is_authenticated'
                  /\ tokens' = "revoked"
                  /\ session' = EmptyDict
             ELSE /\ calls' = <<>>
                  /\ session' = session
                  /\ ~is_authenticated'
                  /\ tokens' = tokens
        /\ ~is_authenticated => ~is_authenticated'
        /\ (~Has(session, "search") /\ Has(session', "search")) =>
             /\ request'.handler = "search"
             /\ Truthy(request'.GET.q)
             /\ session'["search"].query = request'.GET.q ]_vars

\* an authenticated user has logged out
C4_Witness ==
    /\ request.handler = "logout"
    /\ request.user
    /\ ~is_authenticated
    /\ tokens = "revoked"
    /\ session = EmptyDict
    /\ Len(calls) = 2

\* C5: detail_transfer submits a transfer (calls helper_page_transfer, puts
\* 'transfer_link' in the context) only for an authenticated user, a POST, a
\* non-empty 'remote_file_manifest', and after check_exists for the
\* manifest's endpoint and path returned in the same request; for an
\* unauthenticated user neither helper is called and the page is rendered
\* with exactly the subject get_subject returned.
C5_TransferIsGated ==
    request.handler = "detail_transfer" =>
        LET sub == request.subject_data
            ctx == response.context
        IN  /\ (CalledIn(calls, "helper_page_transfer")
                \/ Has(ctx, "transfer_link")) =>
                 /\ request.user
                 /\ request.method = "POST"
                 /\ Has(sub, "remote_file_manifest")
                 /\ sub["remote_file_manifest"] # <<>>
                 /\ \E j \in 1..Len(calls) :
                      /\ calls[j].fn = "check_exists"
                      /\ calls[j].out.ok
                      /\ calls[j].args =
                           << SelectSeq(sub["remote_file_manifest"][1].url.netloc,
                                        LAMBDA c : c # ":"),
                              sub["remote_file_manifest"][1].url.path >>
                      /\ \A i \in 1..Len(calls) :
                           calls[i].fn = "helper_page_transfer" => j < i
            /\ ~request.user =>
                 /\ ~CalledIn(calls, "check_exists")
                 /\ ~CalledIn(calls, "helper_page_transfer")
                 /\ response.kind = "render"
                 /\ ctx = sub

\* a transfer was submitted and the page links to it
C5_Witness ==
    /\ request.handler = "detail_transfer"
    /\ request.method = "POST"
    /\ CalledIn(calls, "helper_page_transfer")
    /\ Has(response.context, "transfer_link")
    /\ Has(response.context, "helper_page_link")

\* C6: detail_preview calls preview, and puts 'preview_data' in the
\* context, only when the requesting user is authenticated.
C6_PreviewIsGated ==
    (/\ request.handler = "detail_preview"
     /\ CalledIn(calls, "preview") \/ Has(response.context, "preview_data"))
    => request.user

\* C7: when the endpoint, the path or the scope is not given, detail_preview
\* does not call preview, stores PreviewURLNotFound for the subject as
\* 'detail_error' and still renders the detail-preview page.
C7_MissingParameterIsAnError ==
    (/\ request.handler = "detail_preview"
     /\ \/ ~Truthy(request.endpoint)
        \/ ~Truthy(request.url_path)
        \/ ~Truthy(request.GET.scope))
    => /\ ~CalledIn(calls, "preview")
       /\ response.kind = "render"
       /\ response.template.name = "detail-preview.html"
       /\ Has(response.context, "detail_error")
       /\ response.context["detail_error"].code = "PreviewURLNotFound"
       /\ response.context["detail_error"].message = request.subject

\* C8: for an authenticated user, a TransferAPIError raised by check_exists,
\* helper_page_transfer or get_helper_page_url ends detail_transfer with
\* ExpiredGlobusToken exactly when its code is 'AuthenticationFailed' and its
\* message is 'Token is not active'; any other one is stored as
\* 'detail_error' and the detail-transfer page is rendered without
\* 'helper_page_link'.
C8_TransferErrorHandling ==
    (request.handler = "detail_transfer" /\ request.user) =>
        /\ \A i \in 1..Len(calls) :
             (calls[i].fn \in TransferCalls /\ ~calls[i].out.ok) =>
               LET e == calls[i].out
               IN  IF e.code = "AuthenticationFailed"
                      /\ e.message = "Token is not active"
                   THEN /\ response.kind = "raise"
                        /\ response.exc = "ExpiredGlobusToken"
                   ELSE /\ response.kind = "render"
                        /\ response.template.name = "detail-transfer.html"
                        /\ Has(response.context, "detail_error")
                        /\ response.context["detail_error"] = e
                        /\ ~Has(response.context, "helper_page_link")
        /\ response.kind = "raise" =>
             \E i \in 1..Len(calls) :
                /\ calls[i].fn \in TransferCalls
                /\ calls[i].out.code = "AuthenticationFailed"
                /\ calls[i].out.message = "Token is not active"

\* get_helper_page_url failed with another error after a transfer was
\* submitted, and the page was rendered with the error
C8_Witness ==
    /\ request.handler = "detail_transfer"
    /\ response.kind = "render"
    /\ Has(response.context, "detail_error")
    /\ response.context["detail_error"].code = "AuthenticationFailed"
    /\ Has(response.context, "transfer_link")
    /\ ~Has(response.context, "helper_page_link")

====
